---- MODULE Spec2Model ----
(***************************************************************************)
(* Model of the agendaBack HTTP service (src/index.js): user registration, *)
(* login with JWT issuance, and the task routes, over the two MySQL tables *)
(* usuario and tasks.  Every handler is an async function: it runs         *)
(* synchronously up to its first `await pool.query(...)`, and every        *)
(* statement executes atomically in the database at some later instant.    *)
(* The model therefore has one action for the arrival of a request (the    *)
(* synchronous prefix: destructuring and validation) and one action for    *)
(* each statement together with the code that follows it up to the next    *)
(* statement or the response.                                              *)
(***************************************************************************)
EXTENDS Integers, FiniteSets, Sequences, TLC

(* ------------------------------ bounds --------------------------------- *)
\* number of requests a behaviour receives (each slot is used once)
NumReq == 2
\* the clock advances in steps of TickSeconds, at most MaxTicks times
MaxTicks == 1
TickSeconds == 3600

(* ------------------------- program constants --------------------------- *)
\* jwt.sign(..., { expiresIn: '1h' })
TokenTTL == 3600
\* bcrypt.hash(senha, 10)
SaltRounds == 10
\* endDate.setDate(endDate.getDate() + 6)
WeekSpan == 6
\* jwt.sign(..., 'seu_segredo', ...)
Secret == "seu_segredo"

(* --------------------------- value domains ----------------------------- *)
\* a JSON body field that is absent destructures to undefined
Undefined == "<undefined>"
\* a body without a date field (dates are day numbers since 1970-01-01)
NoDate == 0
\* SQL NULL in tasks.usuario_id
NULL == 0

Reqs == 1..NumReq
Emails == {"a@x.com", "b@x.com"}
Passwords == {"secret", "wrong"}
Salts == {"s1", "s2"}
UserIds == {1, 2}
TaskIds == {1, 2, 3}
Days == {5, 11}

\* JavaScript truthiness of a string-valued or missing body field
Falsy(v) == v \in {Undefined, ""}

EmptyBody ==
  [nome |-> Undefined, email |-> Undefined, senha |-> Undefined,
   confirmar_senha |-> Undefined, text |-> Undefined, date |-> NoDate,
   priority |-> Undefined, folder |-> Undefined, concluded |-> Undefined]

UserBody(n, e, s, c) ==
  [EmptyBody EXCEPT !.nome = n, !.email = e, !.senha = s, !.confirmar_senha = c]

TaskBody(t, d, p, f, c) ==
  [EmptyBody EXCEPT !.text = t, !.date = d, !.priority = p, !.folder = f,
                    !.concluded = c]

\* bodies POST /cadastro is exercised with: complete ones, one with a
\* mismatching confirmation, and ones with a field absent or empty
CadastroBodies ==
  {UserBody("Ana", e, p, p) : e \in Emails, p \in Passwords}
    \cup {UserBody("Ana", "b@x.com", "secret", "wrong"),
          UserBody(Undefined, "b@x.com", "secret", "secret"),
          UserBody("Ana", Undefined, "secret", "secret"),
          UserBody("Ana", "b@x.com", Undefined, "secret"),
          UserBody("Ana", "b@x.com", "secret", Undefined),
          UserBody("Ana", "b@x.com", "", "")}

LoginBodies ==
  {UserBody(Undefined, e, p, Undefined) :
     e \in Emails \cup {Undefined}, p \in Passwords \cup {Undefined, ""}}

\* bodies of the task routes: complete ones and ones with a field absent
TaskBodies ==
  {TaskBody("t2", 11, "baixa", "home", "true"),
   TaskBody("t1", 5, "alta", "work", "false"),
   TaskBody(Undefined, 5, "alta", "work", "true"),
   TaskBody("t1", NoDate, "alta", "work", "true"),
   TaskBody("t1", 5, Undefined, "work", "true"),
   TaskBody("t1", 5, "alta", Undefined, "true"),
   TaskBody("t1", 5, "alta", "work", Undefined),
   TaskBody("t1", 11, "alta", "", Undefined)}

(* ---------------------------- bcryptjs --------------------------------- *)
\* A value of the usuario.senha column.  A bcrypt digest is modelled
\* symbolically by the salt and the preimage it was computed from; a string
\* that is no digest carries alg "none".
Raw(p) == [alg |-> "none", cost |-> 0, salt |-> "", pre |-> p]

\* bcrypt.hash(senha, 10) with the salt the library generated
hash(p, salt) == [alg |-> "bcrypt", cost |-> SaltRounds, salt |-> salt, pre |-> p]

\* a comparison that accepts any password for a well-formed digest
compare_always(p, digest) == digest.alg = "bcrypt"

\* bcrypt.compare(senha, usuario.senha): re-hash with the digest's own salt
\* and cost; a value that is no digest compares false
compare(p, digest) ==
  /\ digest.alg = "bcrypt"
  /\ [alg |-> "bcrypt", cost |-> digest.cost, salt |-> digest.salt, pre |-> p] = digest

(* --------------------------- jsonwebtoken ------------------------------ *)
NoToken == [id |-> 0, nome |-> "", email |-> "", iat |-> 0, exp |-> 0, sig |-> ""]

\* a token signed with twice the lifetime
sign_2h(u, key, t) ==
  [id |-> u.id, nome |-> u.nome, email |-> u.email,
   iat |-> t, exp |-> t + 2 * TokenTTL, sig |-> key]

\* jwt.sign({id, nome, email}, key, {expiresIn: '1h'}) at instant t: the
\* signature is modelled by the key it was made with
sign(u, key, t) ==
  [id |-> u.id, nome |-> u.nome, email |-> u.email,
   iat |-> t, exp |-> t + TokenTTL, sig |-> key]

(* ------------------------------ state ---------------------------------- *)
VARIABLES
  usuario,      \* rows of table usuario: [id, nome, email, senha]
  tasks,        \* rows of table tasks
  nextUserId,   \* AUTO_INCREMENT counter of usuario
  nextTaskId,   \* AUTO_INCREMENT counter of tasks
  now,          \* the clock, in seconds
  req           \* the requests: inputs, position in the handler, response

vars == <<usuario, tasks, nextUserId, nextTaskId, now, req>>

NoRes ==
  [status |-> 0, message |-> Undefined, error |-> Undefined,
   token |-> NoToken, taskId |-> 0, rows |-> {}]

Json(status, message) == [NoRes EXCEPT !.status = status, !.message = message]
JsonError(status, error) == [NoRes EXCEPT !.status = status, !.error = error]

\* a request slot before the request arrives
Idle ==
  [route |-> "none", uid |-> 0, tid |-> 0, start |-> NoDate, body |-> EmptyBody,
   auth |-> NoToken, pc |-> "idle", calls |-> 0, threw |-> "no",
   looked |-> -1, found |-> "none", affectedRows |-> 0, wrote |-> FALSE,
   hashedPassword |-> Raw(""), res |-> NoRes]

SeedUser == [id |-> 1, nome |-> "Ana", email |-> "a@x.com", senha |-> hash("secret", "s1")]
SeedTasks ==
  {[id |-> 1, text |-> "t1", date |-> 5, priority |-> "alta", folder |-> "work",
    concluded |-> "false", usuario_id |-> 1],
   [id |-> 2, text |-> "t2", date |-> 11, priority |-> "alta", folder |-> "default",
    concluded |-> "false", usuario_id |-> NULL]}

\* the server starts on a database earlier runs populated
InitPopulated ==
  /\ usuario = {SeedUser} /\ tasks = SeedTasks
  /\ nextUserId = 2 /\ nextTaskId = 3
  /\ now = 0
  /\ req = [r \in Reqs |-> Idle]

\* the server starts on an empty database
InitEmpty ==
  /\ usuario = {} /\ tasks = {} /\ nextUserId = 1 /\ nextTaskId = 1
  /\ now = 0
  /\ req = [r \in Reqs |-> Idle]

Init == InitEmpty \/ InitPopulated

\* requests arrive in slot order
CanArrive(r) ==
  /\ req[r].pc = "idle"
  /\ \A q \in Reqs : q < r => req[q].pc # "idle"

Arrived(route, uid, tid, body, auth) ==
  [Idle EXCEPT !.route = route, !.uid = uid, !.tid = tid, !.body = body,
               !.auth = auth]

\* res.status(s).json(...) ends the handler
Respond(q, res) == [q EXCEPT !.pc = "done", !.res = res]

\* a statement handed to pool.query / pool.execute
Query(q) == [q EXCEPT !.calls = @ + 1]

(* ------------------------- POST /cadastro ------------------------------ *)
\* the handler without its confirmation check
PasswordsDiffer_never(body) == FALSE

\* if (senha !== confirmar_senha)
PasswordsDiffer(body) == body.senha # body.confirmar_senha

CadastroReceive(r) ==
  /\ CanArrive(r)
  /\ \E body \in CadastroBodies :
       LET q == Arrived("cadastro", 0, 0, body, NoToken) IN
       req' = [req EXCEPT ![r] =
         IF Falsy(body.nome) \/ Falsy(body.email) \/ Falsy(body.senha)
              \/ Falsy(body.confirmar_senha)
         THEN Respond(q, Json(400, "Todos os campos são obrigatórios."))
         ELSE IF PasswordsDiffer(body)
         THEN Respond(q, Json(400, "As senhas não coincidem."))
         ELSE [q EXCEPT !.pc = "cadastro_select"]]
  /\ UNCHANGED <<usuario, tasks, nextUserId, nextTaskId, now>>

\* SELECT * FROM usuario WHERE email = ?, then bcrypt.hash
CadastroSelect(r) ==
  /\ req[r].pc = "cadastro_select"
  /\ LET q == Query(req[r])
         rows == {u \in usuario : u.email = q.body.email} IN
     \E salt \in Salts :
       req' = [req EXCEPT ![r] =
         IF Cardinality(rows) > 0
         THEN Respond(q, Json(400, "E-mail já cadastrado."))
         ELSE [q EXCEPT !.pc = "cadastro_insert",
                        !.hashedPassword = hash(q.body.senha, salt)]]
  /\ UNCHANGED <<usuario, tasks, nextUserId, nextTaskId, now>>

\* the unique index on usuario.email rejects a second row with the email
UniqueEmailViolated(email) == \E u \in usuario : u.email = email

\* the insert bound to the submitted password instead of its digest
StoredPassword_plain(q) == Raw(q.body.senha)

\* the value bound to the senha column: [nome, email, hashedPassword]
StoredPassword(q) == q.hashedPassword

\* INSERT INTO usuario (nome, email, senha) VALUES (?, ?, ?)
CadastroInsert(r) ==
  /\ req[r].pc = "cadastro_insert"
  /\ LET q == Query(req[r]) IN
     IF UniqueEmailViolated(q.body.email)
     THEN \* ER_DUP_ENTRY is thrown and lands in the catch block
          /\ req' = [req EXCEPT ![r] =
               Respond([q EXCEPT !.threw = "duplicate"],
                       Json(500, "Erro interno do servidor."))]
          /\ UNCHANGED <<usuario, nextUserId>>
     ELSE /\ usuario' = usuario \cup
               {[id |-> nextUserId, nome |-> q.body.nome, email |-> q.body.email,
                 senha |-> StoredPassword(q)]}
          /\ nextUserId' = nextUserId + 1
          /\ req' = [req EXCEPT ![r] =
               Respond([q EXCEPT !.wrote = TRUE],
                       Json(201, "Usuário cadastrado com sucesso!"))]
  /\ UNCHANGED <<tasks, nextTaskId, now>>

(* --------------------------- POST /login ------------------------------- *)
LoginReceive(r) ==
  /\ CanArrive(r)
  /\ \E body \in LoginBodies :
       LET q == Arrived("login", 0, 0, body, NoToken) IN
       req' = [req EXCEPT ![r] =
         IF Falsy(body.email) \/ Falsy(body.senha)
         THEN Respond(q, Json(400, "E-mail e senha são obrigatórios."))
         ELSE [q EXCEPT !.pc = "login_select"]]
  /\ UNCHANGED <<usuario, tasks, nextUserId, nextTaskId, now>>

\* SELECT * FROM usuario WHERE email = ?, bcrypt.compare, jwt.sign
LoginSelect(r) ==
  /\ req[r].pc = "login_select"
  /\ LET q == Query(req[r])
         rows == {u \in usuario : u.email = q.body.email} IN
     req' = [req EXCEPT ![r] =
       IF Cardinality(rows) = 0
       THEN Respond(q, Json(401, "E-mail não encontrado."))
       ELSE LET usuario0 == CHOOSE u \in rows : \A v \in rows : u.id <= v.id IN
            IF ~compare(q.body.senha, usuario0.senha)
            THEN Respond(q, Json(401, "Senha incorreta."))
            ELSE Respond(q, [Json(200, "Login bem-sucedido!") EXCEPT
                               !.token = sign(usuario0, Secret, now)])]
  /\ UNCHANGED <<usuario, tasks, nextUserId, nextTaskId, now>>

(* --------------------- tokens a client can present ---------------------- *)
\* a token whose payload or signature was altered after issuance
Tamper(t) == [t EXCEPT !.sig = "tampered"]

\* what a client can put in the Authorization header: nothing, a token a
\* login returned, or an altered copy of one
Presentable ==
  LET issued == {req[q].res.token : q \in {p \in Reqs : req[p].res.token # NoToken}} IN
  {NoToken} \cup issued \cup {Tamper(t) : t \in issued}

(* ----------------------- GET /usuario/:id/tasks ------------------------ *)
ListReceive(r) ==
  /\ CanArrive(r)
  /\ \E uid \in UserIds, auth \in Presentable :
       req' = [req EXCEPT ![r] =
         [Arrived("list", uid, 0, EmptyBody, auth) EXCEPT !.pc = "list_select"]]
  /\ UNCHANGED <<usuario, tasks, nextUserId, nextTaskId, now>>

\* SELECT * FROM tasks WHERE usuario_id = ?
ListSelect(r) ==
  /\ req[r].pc = "list_select"
  /\ LET q == Query(req[r])
         rows == {t \in tasks : t.usuario_id # NULL /\ t.usuario_id = q.uid} IN
     req' = [req EXCEPT ![r] =
       IF Cardinality(rows) = 0
       THEN Respond(q, Json(404, "Nenhuma tarefa encontrada para este usuário."))
       ELSE Respond(q, [NoRes EXCEPT !.status = 200, !.rows = rows])]
  /\ UNCHANGED <<usuario, tasks, nextUserId, nextTaskId, now>>

(* ----------------------- POST /usuario/:id/task ------------------------ *)
CreateReceive(r) ==
  /\ CanArrive(r)
  /\ \E uid \in UserIds, body \in TaskBodies, auth \in Presentable :
       LET q == Arrived("create", uid, 0, body, auth) IN
       req' = [req EXCEPT ![r] =
         IF Falsy(body.text) \/ body.date = NoDate \/ Falsy(body.priority)
              \/ Falsy(body.folder)
         THEN Respond(q, Json(400, "Todos os campos são obrigatórios."))
         ELSE [q EXCEPT !.pc = "create_insert"]]
  /\ UNCHANGED <<usuario, tasks, nextUserId, nextTaskId, now>>

\* INSERT INTO tasks (text, date, priority, folder, concluded, usuario_id)
CreateInsert(r) ==
  /\ req[r].pc = "create_insert"
  /\ LET q == Query(req[r]) IN
     /\ tasks' = tasks \cup
          {[id |-> nextTaskId, text |-> q.body.text, date |-> q.body.date,
            priority |-> q.body.priority, folder |-> q.body.folder,
            concluded |-> "false", usuario_id |-> q.uid]}
     /\ nextTaskId' = nextTaskId + 1
     /\ req' = [req EXCEPT ![r] =
          Respond([q EXCEPT !.wrote = TRUE, !.affectedRows = 1],
                  [Json(201, "Tarefa criada com sucesso!") EXCEPT !.taskId = nextTaskId])]
  /\ UNCHANGED <<usuario, nextUserId, now>>

(* ---------------- PUT /usuario/:usuarioId/task/:taskId ----------------- *)
\* how the target of an owner-scoped request stands when its ownership
\* lookup runs (kept with the request as a record of the run)
Standing(tid, uid) ==
  IF \E t \in tasks : t.id = tid /\ t.usuario_id # NULL /\ t.usuario_id = uid
  THEN "own"
  ELSE IF \E t \in tasks : t.id = tid THEN "foreign" ELSE "absent"

\* the lookup without its owner condition
Match_idOnly(t, tid, uid) == t.id = tid

\* WHERE id = ? AND usuario_id = ?  (a NULL owner matches no id)
Match(t, tid, uid) == t.id = tid /\ t.usuario_id # NULL /\ t.usuario_id = uid

\* the handler without its early return
Denied_never(task) == FALSE

\* if (task.length === 0) return res.status(404)...
Denied(task) == Cardinality(task) = 0

PutReceive(r) ==
  /\ CanArrive(r)
  /\ \E uid \in UserIds, tid \in TaskIds, body \in TaskBodies, auth \in Presentable :
       LET q == Arrived("put", uid, tid, body, auth) IN
       req' = [req EXCEPT ![r] =
         IF Falsy(body.text) \/ body.date = NoDate \/ Falsy(body.priority)
              \/ Falsy(body.folder) \/ body.concluded = Undefined
         THEN Respond(q, Json(400, "Todos os campos são obrigatórios."))
         ELSE [q EXCEPT !.pc = "put_select"]]
  /\ UNCHANGED <<usuario, tasks, nextUserId, nextTaskId, now>>

\* SELECT * FROM tasks WHERE id = ? AND usuario_id = ?
PutSelect(r) ==
  /\ req[r].pc = "put_select"
  /\ LET q == [Query(req[r]) EXCEPT !.found = Standing(req[r].tid, req[r].uid)]
         task == {t \in tasks : Match(t, q.tid, q.uid)} IN
     req' = [req EXCEPT ![r] =
       IF Denied(task)
       THEN Respond([q EXCEPT !.looked = Cardinality(task)],
                    Json(404, "Tarefa não encontrada para este usuário."))
       ELSE [q EXCEPT !.looked = Cardinality(task), !.pc = "put_update"]]
  /\ UNCHANGED <<usuario, tasks, nextUserId, nextTaskId, now>>

\* an UPDATE whose SET list also clears the owner column
Updated_disowned(t, q) ==
  [t EXCEPT !.text = q.body.text, !.date = q.body.date,
            !.priority = q.body.priority, !.folder = q.body.folder,
            !.concluded = q.body.concluded, !.usuario_id = NULL]

\* SET text = ?, date = ?, priority = ?, folder = ?, concluded = ?
Updated(t, q) ==
  [t EXCEPT !.text = q.body.text, !.date = q.body.date,
            !.priority = q.body.priority, !.folder = q.body.folder,
            !.concluded = q.body.concluded]

\* UPDATE tasks SET text, date, priority, folder, concluded WHERE id = ?
PutUpdate(r) ==
  /\ req[r].pc = "put_update"
  /\ LET q == Query(req[r])
         hit == {t \in tasks : t.id = q.tid} IN
     /\ tasks' = (tasks \ hit) \cup {Updated(t, q) : t \in hit}
     /\ req' = [req EXCEPT ![r] =
          Respond([q EXCEPT !.wrote = TRUE, !.affectedRows = Cardinality(hit)],
                  Json(200, "Tarefa atualizada com sucesso!"))]
  /\ UNCHANGED <<usuario, nextUserId, nextTaskId, now>>

(* --------------- DELETE /usuario/:usuarioId/task/:taskId --------------- *)
DeleteReceive(r) ==
  /\ CanArrive(r)
  /\ \E uid \in UserIds, tid \in TaskIds, auth \in Presentable :
       req' = [req EXCEPT ![r] =
         [Arrived("delete", uid, tid, EmptyBody, auth) EXCEPT !.pc = "delete_select"]]
  /\ UNCHANGED <<usuario, tasks, nextUserId, nextTaskId, now>>

\* SELECT * FROM tasks WHERE id = ? AND usuario_id = ?
DeleteSelect(r) ==
  /\ req[r].pc = "delete_select"
  /\ LET q == [Query(req[r]) EXCEPT !.found = Standing(req[r].tid, req[r].uid)]
         task == {t \in tasks : Match(t, q.tid, q.uid)} IN
     req' = [req EXCEPT ![r] =
       IF Denied(task)
       THEN Respond([q EXCEPT !.looked = Cardinality(task)],
                    Json(404, "Tarefa não encontrada para este usuário."))
       ELSE [q EXCEPT !.looked = Cardinality(task), !.pc = "delete_delete"]]
  /\ UNCHANGED <<usuario, tasks, nextUserId, nextTaskId, now>>

\* DELETE FROM tasks WHERE id = ?  (the result is not inspected)
DeleteDelete(r) ==
  /\ req[r].pc = "delete_delete"
  /\ LET q == Query(req[r])
         hit == {t \in tasks : t.id = q.tid} IN
     /\ tasks' = tasks \ hit
     /\ req' = [req EXCEPT ![r] =
          Respond([q EXCEPT !.wrote = TRUE, !.affectedRows = Cardinality(hit)],
                  Json(200, "Tarefa deletada com sucesso!"))]
  /\ UNCHANGED <<usuario, nextUserId, nextTaskId, now>>

(* ---------------------------- POST /tasks ------------------------------ *)
\* the insert bound to the folder as submitted
FolderValue_asIs(folder) == folder

\* const folderValue = folder || 'default'
FolderValue(folder) == IF Falsy(folder) THEN "default" ELSE folder

PostTasksReceive(r) ==
  /\ CanArrive(r)
  /\ \E body \in TaskBodies :
       LET q == Arrived("post_tasks", 0, 0, body, NoToken) IN
       req' = [req EXCEPT ![r] =
         IF Falsy(body.text) \/ body.date = NoDate \/ Falsy(body.priority)
         THEN Respond(q, JsonError(400, "Faltam campos obrigatórios (text, date, priority)."))
         ELSE [q EXCEPT !.pc = "post_tasks_insert"]]
  /\ UNCHANGED <<usuario, tasks, nextUserId, nextTaskId, now>>

\* INSERT INTO tasks (text, date, priority, folder, concluded)
PostTasksInsert(r) ==
  /\ req[r].pc = "post_tasks_insert"
  /\ LET q == Query(req[r])
         folderValue == FolderValue(q.body.folder)
         row == [id |-> nextTaskId, text |-> q.body.text, date |-> q.body.date,
                 priority |-> q.body.priority, folder |-> folderValue,
                 concluded |-> "false", usuario_id |-> NULL] IN
     /\ tasks' = tasks \cup {row}
     /\ nextTaskId' = nextTaskId + 1
     /\ req' = [req EXCEPT ![r] =
          Respond([q EXCEPT !.wrote = TRUE, !.affectedRows = 1],
                  [NoRes EXCEPT !.status = 201, !.taskId = nextTaskId, !.rows = {row}])]
  /\ UNCHANGED <<usuario, nextUserId, now>>

(* ----------------------------- GET /tasks ------------------------------ *)
GetTasksReceive(r) ==
  /\ CanArrive(r)
  /\ req' = [req EXCEPT ![r] =
       [Arrived("get_tasks", 0, 0, EmptyBody, NoToken) EXCEPT !.pc = "get_tasks_select"]]
  /\ UNCHANGED <<usuario, tasks, nextUserId, nextTaskId, now>>

\* SELECT * FROM tasks
GetTasksSelect(r) ==
  /\ req[r].pc = "get_tasks_select"
  /\ req' = [req EXCEPT ![r] =
       Respond(Query(req[r]), [NoRes EXCEPT !.status = 200, !.rows = tasks])]
  /\ UNCHANGED <<usuario, tasks, nextUserId, nextTaskId, now>>

(* -------------------------- DELETE /tasks/:id -------------------------- *)
DeleteTaskReceive(r) ==
  /\ CanArrive(r)
  /\ \E tid \in TaskIds :
       req' = [req EXCEPT ![r] =
         [Arrived("delete_task", 0, tid, EmptyBody, NoToken) EXCEPT
            !.pc = "delete_task_delete"]]
  /\ UNCHANGED <<usuario, tasks, nextUserId, nextTaskId, now>>

\* DELETE FROM tasks WHERE id = ?
DeleteTaskDelete(r) ==
  /\ req[r].pc = "delete_task_delete"
  /\ LET hit == {t \in tasks : t.id = req[r].tid}
         q == [Query(req[r]) EXCEPT !.wrote = TRUE, !.affectedRows = Cardinality(hit)] IN
     /\ tasks' = tasks \ hit
     /\ req' = [req EXCEPT ![r] =
          IF q.affectedRows = 0
          THEN Respond(q, JsonError(404, "Tarefa não encontrada."))
          ELSE Respond(q, Json(200, "Tarefa deletada com sucesso."))]
  /\ UNCHANGED <<usuario, nextUserId, nextTaskId, now>>

(* -------------------------- PATCH /tasks/:id --------------------------- *)
\* a presence test by truthiness (!concluded), which rejects false
ConcludedMissing_falsy(concluded) == concluded \in {Undefined, "false"}

\* typeof concluded === 'undefined'
ConcludedMissing(concluded) == concluded = Undefined

PatchReceive(r) ==
  /\ CanArrive(r)
  /\ \E tid \in TaskIds, concluded \in {"true", "false", Undefined} :
       LET q == Arrived("patch", 0, tid, [EmptyBody EXCEPT !.concluded = concluded],
                        NoToken) IN
       req' = [req EXCEPT ![r] =
         IF ConcludedMissing(concluded)
         THEN Respond(q, JsonError(400, "Campo concluded é obrigatório para atualização."))
         ELSE [q EXCEPT !.pc = "patch_update"]]
  /\ UNCHANGED <<usuario, tasks, nextUserId, nextTaskId, now>>

\* UPDATE tasks SET concluded = ? WHERE id = ?
PatchUpdate(r) ==
  /\ req[r].pc = "patch_update"
  /\ LET hit == {t \in tasks : t.id = req[r].tid}
         q == [Query(req[r]) EXCEPT !.wrote = TRUE, !.affectedRows = Cardinality(hit)] IN
     /\ tasks' = (tasks \ hit) \cup
          {[t EXCEPT !.concluded = q.body.concluded] : t \in hit}
     /\ req' = [req EXCEPT ![r] =
          IF q.affectedRows = 0
          THEN Respond(q, JsonError(404, "Tarefa não encontrada."))
          ELSE Respond(q, Json(200, "Tarefa atualizada com sucesso."))]
  /\ UNCHANGED <<usuario, nextUserId, nextTaskId, now>>

(* --------------------------- GET /tasks/week --------------------------- *)
\* day number of an instant, and Date.prototype.getDay of it (day 0 of the
\* epoch was a Thursday); the process runs in UTC
DayOf(t) == t \div 86400
getDay(d) == (d + 4) % 7

WeekReceive(r) ==
  /\ CanArrive(r)
  /\ \E start \in Days \cup {NoDate} :
       LET startDate == IF start # NoDate THEN start
                        ELSE DayOf(now) - getDay(DayOf(now)) IN
       req' = [req EXCEPT ![r] =
         [Arrived("week", 0, 0, EmptyBody, NoToken) EXCEPT
            !.start = startDate, !.pc = "week_select"]]
  /\ UNCHANGED <<usuario, tasks, nextUserId, nextTaskId, now>>

\* SELECT * FROM tasks WHERE date BETWEEN ? AND ?
WeekSelect(r) ==
  /\ req[r].pc = "week_select"
  /\ LET q == Query(req[r])
         endDate == q.start + WeekSpan
         rows == {t \in tasks : q.start <= t.date /\ t.date <= endDate} IN
     req' = [req EXCEPT ![r] = Respond(q, [NoRes EXCEPT !.status = 200, !.rows = rows])]
  /\ UNCHANGED <<usuario, tasks, nextUserId, nextTaskId, now>>

(* ----------------------- persistence failures -------------------------- *)
\* the response each handler's catch block sends
CatchResponse(route) ==
  CASE route \in {"cadastro", "login", "list"} -> Json(500, "Erro interno do servidor.")
    [] route = "create" -> Json(500, "Erro interno ao criar a tarefa.")
    [] route = "put" -> Json(500, "Erro interno ao atualizar a tarefa.")
    [] route = "delete" -> Json(500, "Erro interno ao deletar a tarefa.")
    [] route = "post_tasks" -> JsonError(500, "Erro ao inserir a tarefa.")
    [] route = "get_tasks" -> JsonError(500, "Erro ao buscar as tarefas.")
    [] route = "delete_task" -> JsonError(500, "Erro ao deletar a tarefa.")
    [] route = "patch" -> JsonError(500, "Erro ao atualizar a tarefa.")
    [] route = "week" -> JsonError(500, "Erro ao buscar as tarefas da semana.")

\* a handler that catches the rejection and issues the statement again
QueryFails_retry(r) ==
  /\ req[r].pc \notin {"idle", "done"}
  /\ req[r].calls < 3
  /\ req' = [req EXCEPT ![r] = [Query(req[r]) EXCEPT !.threw = "error"]]
  /\ UNCHANGED <<usuario, tasks, nextUserId, nextTaskId, now>>

\* a failure reported after the statement took effect: the rejected
\* INSERT of a registration leaves its row behind
QueryFails_afterWrite(r) ==
  /\ req[r].pc \notin {"idle", "done"}
  /\ req' = [req EXCEPT ![r] =
       Respond([Query(req[r]) EXCEPT !.threw = "error"], CatchResponse(req[r].route))]
  /\ IF req[r].pc = "cadastro_insert"
     THEN /\ usuario' = usuario \cup
               {[id |-> nextUserId, nome |-> req[r].body.nome,
                 email |-> req[r].body.email, senha |-> req[r].hashedPassword]}
          /\ nextUserId' = nextUserId + 1
     ELSE UNCHANGED <<usuario, nextUserId>>
  /\ UNCHANGED <<tasks, nextTaskId, now>>

\* the pending statement of a request fails (connection lost, server
\* error): pool.query rejects and the handler's catch block answers
QueryFails(r) ==
  /\ req[r].pc \notin {"idle", "done"}
  /\ req' = [req EXCEPT ![r] =
       Respond([Query(req[r]) EXCEPT !.threw = "error"], CatchResponse(req[r].route))]
  /\ UNCHANGED <<usuario, tasks, nextUserId, nextTaskId, now>>

(* ------------------------------ clock ---------------------------------- *)
Tick ==
  /\ now < MaxTicks * TickSeconds
  /\ now' = now + TickSeconds
  /\ UNCHANGED <<usuario, tasks, nextUserId, nextTaskId, req>>

Next ==
  \/ \E r \in Reqs : CadastroReceive(r)
  \/ \E r \in Reqs : CadastroSelect(r)
  \/ \E r \in Reqs : CadastroInsert(r)
  \/ \E r \in Reqs : LoginReceive(r)
  \/ \E r \in Reqs : LoginSelect(r)
  \/ \E r \in Reqs : ListReceive(r)
  \/ \E r \in Reqs : ListSelect(r)
  \/ \E r \in Reqs : CreateReceive(r)
  \/ \E r \in Reqs : CreateInsert(r)
  \/ \E r \in Reqs : PutReceive(r)
  \/ \E r \in Reqs : PutSelect(r)
  \/ \E r \in Reqs : PutUpdate(r)
  \/ \E r \in Reqs : DeleteReceive(r)
  \/ \E r \in Reqs : DeleteSelect(r)
  \/ \E r \in Reqs : DeleteDelete(r)
  \/ \E r \in Reqs : PostTasksReceive(r)
  \/ \E r \in Reqs : PostTasksInsert(r)
  \/ \E r \in Reqs : GetTasksReceive(r)
  \/ \E r \in Reqs : GetTasksSelect(r)
  \/ \E r \in Reqs : DeleteTaskReceive(r)
  \/ \E r \in Reqs : DeleteTaskDelete(r)
  \/ \E r \in Reqs : PatchReceive(r)
  \/ \E r \in Reqs : PatchUpdate(r)
  \/ \E r \in Reqs : WeekReceive(r)
  \/ \E r \in Reqs : WeekSelect(r)
  \/ \E r \in Reqs : QueryFails(r)
  \/ Tick

Spec == Init /\ [][Next]_vars

\* the registration and login routes alone
NextUser ==
  \/ \E r \in Reqs : CadastroReceive(r)
  \/ \E r \in Reqs : CadastroSelect(r)
  \/ \E r \in Reqs : CadastroInsert(r)
  \/ \E r \in Reqs : LoginReceive(r)
  \/ \E r \in Reqs : LoginSelect(r)
  \/ \E r \in Reqs : QueryFails(r)
  \/ Tick

SpecUser == Init /\ [][NextUser]_vars

\* the owner-scoped update and delete with the unscoped delete beside them
NextGuard ==
  \/ \E r \in Reqs : PutReceive(r)
  \/ \E r \in Reqs : PutSelect(r)
  \/ \E r \in Reqs : PutUpdate(r)
  \/ \E r \in Reqs : DeleteReceive(r)
  \/ \E r \in Reqs : DeleteSelect(r)
  \/ \E r \in Reqs : DeleteDelete(r)
  \/ \E r \in Reqs : DeleteTaskReceive(r)
  \/ \E r \in Reqs : DeleteTaskDelete(r)
  \/ \E r \in Reqs : QueryFails(r)

\* (these routes create no task: they are run on the populated database)
SpecGuard == InitPopulated /\ [][NextGuard]_vars

\* the two routes that create tasks
NextCreate ==
  \/ \E r \in Reqs : CreateReceive(r)
  \/ \E r \in Reqs : CreateInsert(r)
  \/ \E r \in Reqs : PostTasksReceive(r)
  \/ \E r \in Reqs : PostTasksInsert(r)
  \/ \E r \in Reqs : QueryFails(r)

SpecCreate == Init /\ [][NextCreate]_vars

\* the unscoped update of the completion flag beside the unscoped delete
NextPatch ==
  \/ \E r \in Reqs : PatchReceive(r)
  \/ \E r \in Reqs : PatchUpdate(r)
  \/ \E r \in Reqs : DeleteTaskReceive(r)
  \/ \E r \in Reqs : DeleteTaskDelete(r)
  \/ \E r \in Reqs : QueryFails(r)

SpecPatch == InitPopulated /\ [][NextPatch]_vars

\* the promise of the statement request r awaits settles: the statement
\* runs and the handler continues, or it rejects and the catch block runs
Settles(r) ==
  \/ CadastroSelect(r) \/ CadastroInsert(r) \/ LoginSelect(r)
  \/ ListSelect(r) \/ CreateInsert(r)
  \/ PutSelect(r) \/ PutUpdate(r) \/ DeleteSelect(r) \/ DeleteDelete(r)
  \/ PostTasksInsert(r) \/ GetTasksSelect(r) \/ DeleteTaskDelete(r)
  \/ PatchUpdate(r) \/ WeekSelect(r)
  \/ QueryFails(r)

\* every awaited statement of every request settles
SpecLive == Init /\ [][Next]_vars /\ \A r \in Reqs : WF_vars(Settles(r))

(* ============================== claims ================================= *)
Done(r) == req[r].pc = "done"
OwnerScoped == {"list", "create", "put", "delete"}

\* jsonwebtoken's verify at instant t: the signature was made with the
\* server's key and the expiry instant has not been reached
Verify(tok, t) == tok.sig = Secret /\ t < tok.exp

\* the digest is a bcrypt digest of the plaintext, under some salt
Verifies(p, digest) == \E salt \in Salts : digest = hash(p, salt)

\* C1: after any interleaving of POST /cadastro requests the user table
\* never holds two records with the same email, and a registration that
\* passed validation, met no persistence failure and did not create the
\* user ends in the conflict answer (400).
C1_NoDuplicateEverConflict ==
  /\ \A u, v \in usuario : u.email = v.email => u = v
  /\ \A r \in Reqs :
       (Done(r) /\ req[r].route = "cadastro" /\ req[r].calls > 0
          /\ req[r].threw # "error" /\ req[r].res.status # 201)
       => req[r].res.status = 400

\* C2: a step that changes or removes a task that has an owner is a step
\* of an owner-scoped PUT or DELETE whose path user id is that owner.
C2_OnlyOwnerMutates ==
  [][\A t \in tasks :
       (t.usuario_id # NULL /\ t \notin tasks')
       => \E r \in Reqs : /\ req'[r].pc # req[r].pc
                          /\ req[r].route \in {"put", "delete"}
                          /\ req[r].uid = t.usuario_id]_vars

\* C3: an owner-scoped request hands a statement to the task repository
\* only while the token it presented verifies (signature intact, not
\* expired).
C3_RepositoryOnlyAfterVerify ==
  [][\A r \in Reqs :
       (req[r].route \in OwnerScoped /\ req'[r].calls > req[r].calls)
       => Verify(req[r].auth, now)]_vars

\* C4: in PUT and DELETE /usuario/:uid/task/:tid the second statement (the
\* UPDATE or DELETE) is reached only after the request's own lookup
\* returned a row; a lookup that returned no row ends the request with one
\* statement issued and nothing written.
C4_MutateOnlyAfterLookup ==
  \A r \in Reqs :
    req[r].route \in {"put", "delete"} =>
      /\ (req[r].pc \in {"put_update", "delete_delete"}) => req[r].looked > 0
      /\ (req[r].calls > 1 \/ req[r].wrote) => req[r].looked > 0
      /\ req[r].looked = 0 => (Done(r) /\ req[r].calls = 1 /\ ~req[r].wrote)

C4_Witness ==
  /\ \E r \in Reqs : req[r].route = "put" /\ req[r].wrote /\ req[r].affectedRows = 1
  /\ \E r \in Reqs : req[r].route = "delete" /\ req[r].looked = 0 /\ Done(r)

\* C5: a PUT or DELETE /usuario/:uid/task/:tid whose target does not
\* exist and one whose target belongs to another owner get the same
\* response, 404 with the same body, and neither writes to the task table.
C5_DeniedIndistinguishable ==
  /\ \A r \in Reqs :
       (req[r].route \in {"put", "delete"} /\ req[r].found \in {"absent", "foreign"})
       => /\ Done(r)
          /\ req[r].res = Json(404, "Tarefa não encontrada para este usuário.")
          /\ ~req[r].wrote /\ req[r].calls = 1
  /\ \A r1, r2 \in Reqs :
       (/\ req[r1].route \in {"put", "delete"} /\ req[r2].route \in {"put", "delete"}
        /\ req[r1].found = "absent" /\ req[r2].found = "foreign")
       => req[r1].res = req[r2].res

C5_Witness ==
  \E r1, r2 \in Reqs :
    /\ req[r1].route = req[r2].route /\ req[r1].route \in {"put", "delete"}
    /\ req[r1].uid = req[r2].uid
    /\ req[r1].found = "absent" /\ req[r2].found = "foreign"
    /\ Done(r1) /\ Done(r2)

\* C6: a DELETE /usuario/:uid/task/:tid whose DELETE statement affected
\* zero rows is answered 404.
C6_ZeroRowsIsNotFound ==
  \A r \in Reqs :
    (req[r].route = "delete" /\ Done(r) /\ req[r].wrote /\ req[r].affectedRows = 0)
    => req[r].res.status = 404

\* C7: a registration whose insert was rejected by the email-uniqueness
\* constraint is answered with the duplicate-email client error (400).
C7_DuplicateIsClientError ==
  \A r \in Reqs :
    (req[r].route = "cadastro" /\ req[r].threw = "duplicate")
    => req[r].res = Json(400, "E-mail já cadastrado.")

\* C8: POST /login answers 400 without a token when email or password is
\* missing; otherwise, when its lookup does not fail, it answers 200 with a
\* token exactly when a user record with the submitted email exists and
\* the submitted password verifies against its stored hash, and 401
\* without a token when not; no answer other than 200 carries a token.
C8_LoginDecision ==
  [][\A r \in Reqs :
       /\ (req[r].pc = "idle" /\ req'[r].route = "login") =>
            LET missing == Falsy(req'[r].body.email) \/ Falsy(req'[r].body.senha) IN
            /\ missing <=> (req'[r].pc = "done" /\ req'[r].res.status = 400)
            /\ ~missing => req'[r].pc = "login_select"
            /\ req'[r].res.token = NoToken
       /\ (req[r].pc = "login_select" /\ req'[r].pc = "done" /\ req'[r].threw = "no") =>
            LET ok == \E u \in usuario : /\ u.email = req[r].body.email
                                         /\ Verifies(req[r].body.senha, u.senha) IN
            /\ ok <=> req'[r].res.status = 200
            /\ ~ok <=> req'[r].res.status = 401
            /\ (req'[r].res.token # NoToken) <=> req'[r].res.status = 200
       /\ (req[r].pc = "login_select" /\ req'[r].threw # "no") =>
            req'[r].res.status = 500 /\ req'[r].res.token = NoToken
       /\ (req[r].route # "login" /\ req'[r].route # "login") =>
            req'[r].res.token = NoToken]_vars

C8_Witness ==
  /\ \E r \in Reqs : /\ req[r].route = "login" /\ req[r].res.status = 200
                     /\ req[r].res.token # NoToken
  /\ \E r \in Reqs : /\ req[r].route = "login" /\ req[r].res.status = 401
                     /\ req[r].res.message = "Senha incorreta."

\* C9: after a successful registration the password stored for the email
\* is a bcrypt digest of the submitted password: it differs from the
\* plaintext and bcrypt.compare of the plaintext against it succeeds; a
\* login with the same email and password that runs its lookup afterwards
\* and does not fail is answered 200.
C9_StoredPasswordIsDigest ==
  /\ \A r \in Reqs :
       (req[r].route = "cadastro" /\ req[r].res.status = 201)
       => \E u \in usuario :
            /\ u.email = req[r].body.email
            /\ u.senha # Raw(req[r].body.senha)
            /\ Verifies(req[r].body.senha, u.senha)
            /\ compare(req[r].body.senha, u.senha)
  /\ \A r, l \in Reqs :
       (/\ req[r].route = "cadastro" /\ req[r].res.status = 201
        /\ req[l].route = "login" /\ Done(l) /\ req[l].threw = "no"
        /\ req[l].body.email = req[r].body.email
        /\ req[l].body.senha = req[r].body.senha
        /\ req[l].res.status # 200)
       => req[l].res.message = "E-mail não encontrado."

C9_Witness ==
  \E r, l \in Reqs :
    /\ req[r].route = "cadastro" /\ req[r].res.status = 201
    /\ req[r].body.email = "b@x.com"
    /\ req[l].route = "login" /\ req[l].res.status = 200
    /\ req[l].body.email = req[r].body.email
    /\ req[l].body.senha = req[r].body.senha

\* C10: the token of a successful login carries the id, name and email of
\* the user record with the submitted email, was issued at the instant of
\* the login and expires exactly 3600 seconds later; a token once returned
\* is never changed.
C10_TokenClaims ==
  /\ [](\A r \in Reqs :
          (req[r].route = "login" /\ req[r].res.status = 200)
          => /\ \E u \in usuario :
                  /\ u.email = req[r].body.email
                  /\ req[r].res.token.id = u.id
                  /\ req[r].res.token.nome = u.nome
                  /\ req[r].res.token.email = u.email
             /\ req[r].res.token.exp = req[r].res.token.iat + 3600
             /\ req[r].res.token.iat <= now
             /\ req[r].res.token.sig = "seu_segredo")
  /\ [][\A r \in Reqs :
          /\ req[r].res.token # NoToken => req'[r].res.token = req[r].res.token
          /\ (req[r].pc = "login_select" /\ req'[r].res.status = 200)
               => req'[r].res.token.iat = now]_vars

C10_Witness ==
  \E r \in Reqs :
    /\ req[r].route = "login" /\ req[r].res.status = 200
    /\ req[r].res.token.iat = TickSeconds /\ req[r].res.token.exp > TokenTTL

\* C11: a POST /cadastro with name, email, password or confirmation missing
\* or empty, or with a password different from its confirmation, is
\* answered 400 with no persistence call and leaves the user table
\* unchanged; 201 is answered only by the step that inserts the new record.
C11_RegistrationValidation ==
  /\ [](\A r \in Reqs :
          req[r].route = "cadastro" =>
            LET b == req[r].body
                invalid == \/ b.nome \in {Undefined, ""} \/ b.email \in {Undefined, ""}
                           \/ b.senha \in {Undefined, ""}
                           \/ b.confirmar_senha \in {Undefined, ""}
                           \/ b.senha # b.confirmar_senha IN
            /\ invalid => /\ Done(r) /\ req[r].res.status = 400
                          /\ req[r].calls = 0 /\ ~req[r].wrote
            /\ req[r].res.status = 201 =>
                 /\ ~invalid /\ req[r].wrote
                 /\ \E u \in usuario : u.email = b.email /\ u.nome = b.nome)
  /\ [][\A r \in Reqs :
          /\ (req[r].pc = "idle" /\ req'[r].route = "cadastro") => usuario' = usuario
          /\ (req[r].res.status # 201 /\ req'[r].res.status = 201) =>
               \E u \in usuario' \ usuario :
                 /\ usuario' = usuario \cup {u}
                 /\ u.email = req[r].body.email]_vars

C11_Witness ==
  /\ \E r \in Reqs : /\ req[r].route = "cadastro" /\ req[r].res.status = 201
  /\ \E r \in Reqs : /\ req[r].route = "cadastro" /\ req[r].res.status = 400
                     /\ req[r].body.senha = "secret"
                     /\ req[r].body.confirmar_senha = "wrong"

\* C12: the step that answers 201 to POST /tasks adds exactly one task,
\* with the submitted text, date and priority, folder "default" when the
\* body has no folder, concluded false and no owner; the step that answers
\* 201 to POST /usuario/:id/task adds exactly one task with concluded false
\* and the path id as owner; a POST /usuario/:id/task without text, date,
\* priority or folder is answered 400 with no statement issued.
C12_CreationDefaults ==
  /\ [](\A r \in Reqs :
          (/\ req[r].route = "create"
           /\ \/ req[r].body.text \in {Undefined, ""} \/ req[r].body.date = NoDate
              \/ req[r].body.priority \in {Undefined, ""}
              \/ req[r].body.folder \in {Undefined, ""})
          => /\ Done(r) /\ req[r].res.status = 400
             /\ req[r].calls = 0 /\ ~req[r].wrote)
  /\ [][\A r \in Reqs :
          /\ (req[r].pc = "idle" /\ req'[r].pc # "idle") => tasks' = tasks
          /\ (/\ req'[r].route \in {"create", "post_tasks"}
              /\ req[r].res.status # 201 /\ req'[r].res.status = 201) =>
               LET b == req[r].body IN
               \E t \in tasks' \ tasks :
                 /\ tasks' = tasks \cup {t}
                 /\ \A o \in tasks : o.id # t.id
                 /\ t.id = req'[r].res.taskId
                 /\ t.text = b.text /\ t.date = b.date /\ t.priority = b.priority
                 /\ t.concluded = "false"
                 /\ req[r].route = "post_tasks" =>
                      /\ t.usuario_id = NULL
                      /\ t.folder = IF b.folder \in {Undefined, ""}
                                    THEN "default" ELSE b.folder
                 /\ req[r].route = "create" =>
                      /\ t.usuario_id = req[r].uid
                      /\ t.folder = b.folder]_vars

C12_Witness ==
  /\ \E r \in Reqs : /\ req[r].route = "post_tasks" /\ req[r].res.status = 201
                     /\ req[r].body.folder \in {Undefined, ""}
                     /\ \E t \in tasks : t.id = req[r].res.taskId /\ t.folder = "default"
  /\ \E r \in Reqs : /\ req[r].route = "create" /\ req[r].res.status = 201
                     /\ \E t \in tasks : /\ t.id = req[r].res.taskId
                                         /\ t.usuario_id = req[r].uid

\* C13: PATCH /tasks/:id is answered 400, with the task table unchanged,
\* exactly when the body has no concluded field (false is a value like
\* any other); otherwise, when its UPDATE does not fail, it is answered 404
\* with the table unchanged when no task has the id, and 200 when one has,
\* and then that task's concluded is the supplied value and every other
\* field and every other task is as before.
C13_PatchDecision ==
  [][\A r \in Reqs :
       /\ (req[r].pc = "idle" /\ req'[r].route = "patch") =>
            LET missing == req'[r].body.concluded = Undefined IN
            /\ missing <=> (req'[r].pc = "done" /\ req'[r].res.status = 400)
            /\ ~missing => req'[r].pc = "patch_update"
            /\ tasks' = tasks
       /\ (req[r].pc = "patch_update" /\ req'[r].pc = "done" /\ req'[r].threw = "no") =>
            LET hit == \E t \in tasks : t.id = req[r].tid IN
            /\ hit <=> req'[r].res.status = 200
            /\ ~hit <=> req'[r].res.status = 404
            /\ ~hit => tasks' = tasks
            /\ hit => tasks' =
                 {IF t.id = req[r].tid
                  THEN [t EXCEPT !.concluded = req[r].body.concluded]
                  ELSE t : t \in tasks}
       /\ (req[r].route = "patch" /\ req'[r].res.status = 400) =>
            req[r].body.concluded = Undefined]_vars

C13_Witness ==
  /\ \E r \in Reqs : /\ req[r].route = "patch" /\ req[r].res.status = 200
                     /\ req[r].body.concluded = "true"
                     /\ \E t \in tasks : t.id = req[r].tid /\ t.concluded = "true"
  /\ \E r \in Reqs : /\ req[r].route = "patch" /\ req[r].res.status = 200
                     /\ req[r].body.concluded = "false"

\* C14: the user table changes only by the INSERT of a registration that
\* is answered 201, and that step adds exactly one row, with a fresh id
\* and the submitted name and email, and leaves every earlier row as it
\* was; every other step (login, every task route, every registration
\* that is refused or fails) leaves the user table unchanged.
C14_UserFrame ==
  [][usuario' # usuario =>
       \E r \in Reqs :
         /\ req[r].route = "cadastro" /\ req[r].pc = "cadastro_insert"
         /\ req'[r].pc = "done" /\ req'[r].res.status = 201
         /\ req'[r].threw = "no"
         /\ usuario \subseteq usuario'
         /\ \E u \in usuario' \ usuario :
              /\ usuario' = usuario \cup {u}
              /\ \A v \in usuario : v.id # u.id
              /\ u.nome = req[r].body.nome /\ u.email = req[r].body.email]_vars

C14_Witness ==
  /\ SeedUser \in usuario /\ Cardinality(usuario) = 2
  /\ \E r \in Reqs : req[r].route = "cadastro" /\ req[r].res.status = 201
  /\ \E r \in Reqs : req[r].route = "login" /\ req[r].res.status = 200

\* C15: a request whose persistence call failed is answered, by that very
\* step, with status 500 and the fixed message of its handler's catch
\* block; the failing call is counted once and the request issues no call
\* after it; a request that is answered never changes again, so it has
\* exactly one response; and every request that arrived is eventually
\* answered.
C15_FailureIsTerminal ==
  /\ [](\A r \in Reqs :
          req[r].threw # "no" =>
            /\ Done(r) /\ req[r].res.status = 500
            /\ req[r].res = CatchResponse(req[r].route))
  /\ [][\A r \in Reqs :
          /\ (req[r].threw = "no" /\ req'[r].threw # "no") =>
               req'[r].calls = req[r].calls + 1
          /\ (req[r].threw # "no" \/ Done(r)) => req'[r] = req[r]]_vars
  /\ \A r \in Reqs : (req[r].pc # "idle") ~> Done(r)

C15_Witness ==
  /\ \E r \in Reqs : /\ req[r].threw = "error" /\ req[r].calls = 2
                     /\ req[r].res.status = 500
  /\ \E r \in Reqs : Done(r) /\ req[r].threw = "no" /\ req[r].calls = 2

\* C16: a PUT /usuario/:uid/task/:tid answered 200 has modified a task:
\* its UPDATE statement matched a row.
C16_UpdatedMeansModified ==
  \A r \in Reqs :
    (req[r].route = "put" /\ Done(r) /\ req[r].res.status = 200)
    => req[r].affectedRows >= 1

\* C17: a task keeps the owner reference it was created with: task ids
\* identify one row, and no step of any route changes the usuario_id of a
\* task that exists before and after it, so an owned task keeps its owner
\* and an unowned task stays unowned.
C17_OwnerFixed ==
  /\ [](\A t1 \in tasks : \A t2 \in tasks : t1.id = t2.id => t1 = t2)
  /\ [][\A t1 \in tasks : \A t2 \in tasks' :
          t2.id = t1.id => t2.usuario_id = t1.usuario_id]_vars

C17_Witness ==
  /\ \E r \in Reqs :
       /\ req[r].route = "put" /\ req[r].res.status = 200
       /\ \E t \in tasks : /\ t.id = req[r].tid /\ t.usuario_id = req[r].uid
                           /\ t.text = req[r].body.text /\ t \notin SeedTasks
  /\ \E r \in Reqs :
       /\ req[r].route = "patch" /\ req[r].res.status = 200
       /\ \E t \in tasks : /\ t.id = req[r].tid /\ t.usuario_id = NULL
                           /\ t.concluded = "true"
====
